---- MODULE Spec2Model ----
(***************************************************************************)
(* Model of the bulk-load pipeline of src/import_data.py writing into the  *)
(* schema declared in src/models.py.                                       *)
(*                                                                         *)
(* Cell values are sequences of one-character strings, so that strip,      *)
(* concatenation and the search for the separator '_' are computed as the  *)
(* code computes them.  An absent spreadsheet cell is the value None (what *)
(* df.where(pd.notnull(df), None) leaves in an object column).             *)
(*                                                                         *)
(* The store is the relational database behind the SQLAlchemy session: it  *)
(* enforces the primary keys, NOT NULL, UNIQUE, FOREIGN KEY and String(n)  *)
(* declarations of src/models.py when a flush sends a row to it.           *)
(*                                                                         *)
(* Columns that carry no constraint and decide no branch (labels,          *)
(* descriptions, addresses, dates) are left out of the rows.               *)
(***************************************************************************)
EXTENDS Integers, Sequences, FiniteSets, TLC

(* ------------------------------------------------------------------ *)
(* Bounds of the model                                                *)
(* ------------------------------------------------------------------ *)
MaxRows == 2
MaxRuns == 2
MaxStrLen == 2

(* ------------------------------------------------------------------ *)
(* Cell values                                                        *)
(* ------------------------------------------------------------------ *)
None == <<"<None>">>
Unset == <<"<unset>">>

IsNull(v) == v = None

IsStr(v) == v # None /\ v # Unset

RECURSIVE LStrip(_)
LStrip(s) == IF s # <<>> /\ Head(s) = " " THEN LStrip(Tail(s)) ELSE s

RECURSIVE RStrip(_)
RStrip(s) == IF s # <<>> /\ s[Len(s)] = " " THEN RStrip(SubSeq(s, 1, Len(s) - 1)) ELSE s

Strip(s) == RStrip(LStrip(s))

safe_string(s) == IF ~IsStr(s) THEN s ELSE Strip(s)

AsTypeStr(v) == IF v = None THEN <<"N", "o", "n", "e">> ELSE v

CleanKey(v) == safe_string(AsTypeStr(v))

Contains(s, c) == \E i \in 1..Len(s) : s[i] = c

PdNotna(v) == ~IsNull(v)

Truthy(v) == ~IsNull(v) /\ v # <<>>

EnrichAlways(niveau_code, code_semestre) == niveau_code \o <<"_">> \o code_semestre
EnrichSemestre(niveau_code, code_semestre) ==
    IF PdNotna(niveau_code) /\ Truthy(code_semestre) /\ ~Contains(code_semestre, "_")
    THEN niveau_code \o <<"_">> \o code_semestre
    ELSE code_semestre

(* ------------------------------------------------------------------ *)
(* DataFrame helpers                                                  *)
(* ------------------------------------------------------------------ *)
\* the rows at the positions lo..hi that are in `keep`, in their order
RECURSIVE FilterIdx(_, _, _, _)
FilterIdx(rows, keep, lo, hi) ==
    IF lo > hi THEN <<>>
    ELSE IF lo = hi THEN (IF lo \in keep THEN <<rows[lo]>> ELSE <<>>)
    ELSE LET mid == (lo + hi) \div 2
         IN  FilterIdx(rows, keep, lo, mid) \o FilterIdx(rows, keep, mid + 1, hi)

DropDuplicates(rows, f) ==
    FilterIdx(rows, {i \in 1..Len(rows) : \A j \in 1..(i - 1) : rows[j][f] # rows[i][f]},
              1, Len(rows))

DropNa(rows, subset) ==
    FilterIdx(rows, {i \in 1..Len(rows) : \A f \in subset : ~IsNull(rows[i][f])},
              1, Len(rows))

WithIndex(rows) == [i \in 1..Len(rows) |-> [rows[i] EXCEPT !.idx = i - 1]]

(* ------------------------------------------------------------------ *)
(* Schema (src/models.py)                                             *)
(* ------------------------------------------------------------------ *)
Tables == {"institutions", "composantes", "domaines", "mentions", "parcours",
           "cycles", "niveaux", "semestres", "types_inscription", "sessions_examen",
           "modes_inscription", "types_formation",
           "annees_universitaires", "etudiants", "inscriptions"}

\* The class TypeInscription that import_data.py imports and merges (lines 17,
\* 90) is not declared in src/models.py; its table is taken from the data
\* model of the specification: a fixed taxonomy keyed by its code.
TypeInscriptionTable == [pk |-> "code", notnull |-> {"code", "label"}, unique |-> {{"label"}}]

PrimaryKey == [institutions |-> "id_institution", composantes |-> "code",
               domaines |-> "code", mentions |-> "id_mention",
               parcours |-> "id_parcours", cycles |-> "code", niveaux |-> "code",
               semestres |-> "code_semestre", types_inscription |-> TypeInscriptionTable.pk,
               sessions_examen |-> "code_session", modes_inscription |-> "code",
               types_formation |-> "code", annees_universitaires |-> "annee",
               etudiants |-> "code_etudiant", inscriptions |-> "code_inscription"]

NotNullCols == [institutions |-> {"id_institution", "nom", "type_institution"},
                composantes |-> {"code", "id_institution"},
                domaines |-> {"code"},
                mentions |-> {"id_mention", "code_mention", "composante_code", "domaine_code"},
                parcours |-> {"id_parcours", "code_parcours", "mention_id"},
                cycles |-> {"code", "label"},
                niveaux |-> {"code", "cycle_code"},
                semestres |-> {"code_semestre", "numero_semestre", "niveau_code"},
                types_inscription |-> TypeInscriptionTable.notnull,
                sessions_examen |-> {"code_session", "label"},
                modes_inscription |-> {"code", "label"},
                types_formation |-> {"code", "label"},
                annees_universitaires |-> {"annee", "ordre_annee"},
                etudiants |-> {"code_etudiant", "nom"},
                inscriptions |-> {"code_inscription", "code_etudiant", "annee_universitaire",
                                  "id_parcours", "code_semestre", "code_mode_inscription",
                                  "code_type_formation"}]

UniqueCols == [institutions |-> {{"nom"}},
               composantes |-> {},
               domaines |-> {},
               mentions |-> {{"code_mention", "composante_code"}},
               parcours |-> {{"code_parcours", "mention_id"}},
               cycles |-> {{"label"}},
               niveaux |-> {},
               semestres |-> {{"niveau_code", "numero_semestre"}},
               types_inscription |-> TypeInscriptionTable.unique,
               sessions_examen |-> {{"label"}},
               modes_inscription |-> {{"label"}},
               types_formation |-> {{"label"}},
               annees_universitaires |-> {{"ordre_annee"}},
               etudiants |-> {},
               inscriptions |-> {{"code_etudiant", "annee_universitaire", "id_parcours",
                                  "code_semestre"}}]

FK(f, rt, rf) == [f |-> f, rt |-> rt, rf |-> rf]

ForeignKeysNone == [t \in Tables |-> {}]
ForeignKeys == [institutions |-> {},
                composantes |-> {FK("id_institution", "institutions", "id_institution")},
                domaines |-> {},
                mentions |-> {FK("composante_code", "composantes", "code"),
                              FK("domaine_code", "domaines", "code")},
                parcours |-> {FK("mention_id", "mentions", "id_mention")},
                cycles |-> {},
                niveaux |-> {FK("cycle_code", "cycles", "code")},
                semestres |-> {FK("niveau_code", "niveaux", "code")},
                types_inscription |-> {},
                sessions_examen |-> {},
                modes_inscription |-> {},
                types_formation |-> {},
                annees_universitaires |-> {},
                etudiants |-> {},
                inscriptions |-> {FK("code_etudiant", "etudiants", "code_etudiant"),
                                  FK("annee_universitaire", "annees_universitaires", "annee"),
                                  FK("id_parcours", "parcours", "id_parcours"),
                                  FK("code_semestre", "semestres", "code_semestre"),
                                  FK("code_mode_inscription", "modes_inscription", "code"),
                                  FK("code_type_formation", "types_formation", "code")}]

\* String(n) lengths of the columns whose values the model lets grow long.
EtudiantNomLen == 100
EtudiantCodeLen == 50

StringLen == [t \in Tables |->
                 IF t = "etudiants"
                 THEN [code_etudiant |-> EtudiantCodeLen, nom |-> EtudiantNomLen]
                 ELSE << >>]

\* Column(..., default=...) applied by the ORM to an attribute never set.
ColumnDefault == [t \in Tables |->
                     IF t = "inscriptions" THEN [code_type_formation |-> <<"F", "I">>]
                     ELSE << >>]

EmptyDb == [t \in Tables |-> {}]

(* ------------------------------------------------------------------ *)
(* Session: merge, flush, commit (SQLAlchemy Session over the store)  *)
(* ------------------------------------------------------------------ *)
Obj(tbl, row) == [tbl |-> tbl, row |-> row]

SameKeyNever(tbl, r1, r2) == FALSE
SameKey(tbl, r1, r2) == r1[PrimaryKey[tbl]] = r2[PrimaryKey[tbl]]

\* The row a flush writes for a merged object: attributes the constructor
\* did not set keep the stored value (UPDATE) or take the column default,
\* else NULL (INSERT).
RowToWrite(tx, o) ==
    LET old == {r \in tx[o.tbl] : SameKey(o.tbl, r, o.row)}
        dft == ColumnDefault[o.tbl]
    IN  IF old # {}
        THEN LET e == CHOOSE r \in old : TRUE
             IN  [f \in DOMAIN o.row |-> IF o.row[f] = Unset THEN e[f] ELSE o.row[f]]
        ELSE [f \in DOMAIN o.row |->
                 IF o.row[f] = Unset
                 THEN (IF f \in DOMAIN dft THEN dft[f] ELSE None)
                 ELSE o.row[f]]

\* What the store answers to the INSERT/UPDATE of one row.
StoreVerdict(tx, tbl, new) ==
    LET others == {r \in tx[tbl] : ~SameKey(tbl, r, new)}
        lens == StringLen[tbl]
    IN  IF \E f \in DOMAIN lens : ~IsNull(new[f]) /\ Len(new[f]) > lens[f]
        THEN "data"
        ELSE IF \E f \in NotNullCols[tbl] : IsNull(new[f])
        THEN "notnull"
        ELSE IF \E u \in UniqueCols[tbl] : \E r \in others :
                    \A f \in u : ~IsNull(new[f]) /\ r[f] = new[f]
        THEN "unique"
        ELSE IF \E k \in ForeignKeys[tbl] :
                    ~IsNull(new[k.f]) /\ ~\E t \in tx[k.rt] : t[k.rf] = new[k.f]
        THEN "fk"
        ELSE "none"

UpsertAdd(tx, tbl, new) == [tx EXCEPT ![tbl] = @ \cup {new}]
Upsert(tx, tbl, new) ==
    [tx EXCEPT ![tbl] = {r \in @ : ~SameKey(tbl, r, new)} \cup {new}]

\* session.flush(): sends the pending objects to the store in merge order;
\* the first rejected statement raises.
RECURSIVE Flush(_, _)
Flush(tx, pending) ==
    IF pending = <<>> THEN [err |-> "none", tx |-> tx]
    ELSE LET o == Head(pending)
             new == RowToWrite(tx, o)
             v == StoreVerdict(tx, o.tbl, new)
         IN  IF v # "none" THEN [err |-> v, tx |-> tx]
             ELSE Flush(Upsert(tx, o.tbl, new), Tail(pending))

\* session.merge(obj): autoflush of what is pending, then obj becomes pending.
Merge(s, o) ==
    LET fl == Flush(s.tx, s.pending)
    IN  IF fl.err # "none"
        THEN [err |-> fl.err, tx |-> fl.tx, pending |-> s.pending]
        ELSE [err |-> "none", tx |-> fl.tx, pending |-> <<o>>]

\* a loop of session.merge over a list of objects, stopping where one raises
RECURSIVE MergeAll(_, _)
MergeAll(s, objs) ==
    IF objs = <<>> \/ s.err # "none" THEN s
    ELSE MergeAll(Merge(s, Head(objs)), Tail(objs))

CommitLeavesPending(s) == [err |-> "none", tx |-> s.tx, pending |-> s.pending]
\* session.commit(): flush, then the transaction's rows become the store's
Commit(s) ==
    LET fl == Flush(s.tx, s.pending)
    IN  IF fl.err # "none"
        THEN [err |-> fl.err, tx |-> fl.tx, pending |-> s.pending]
        ELSE [err |-> "none", tx |-> fl.tx, pending |-> <<>>]

Sess(t, p) == [err |-> "none", tx |-> t, pending |-> p]

RollbackKeeps(t, d) == t
RollbackEmpties(t, d) == EmptyDb
\* session.rollback(): the transaction's rows are the store's again
Rollback(t, d) == d

GetSessionShared(o, s) == o \cup {"main"}
\* database_setup.get_session(): one more open session, s
GetSession(o, s) == o \cup {s}

CloseLeaks(o, s) == o
\* session.close(): the session s is no longer among the open ones o
Close(o, s) == o \ {s}

\* a loop of session.merge followed by session.commit(), inside one try
MergeAllCommit(s, objs) ==
    LET m == MergeAll(s, objs)
    IN  IF m.err = "none" THEN Commit(m) ELSE m


(* ------------------------------------------------------------------ *)
(* Source files (the three spreadsheets) the model draws its runs from *)
(* ------------------------------------------------------------------ *)
LongName == [k \in 1..(EtudiantNomLen + 1) |-> "x"]

InstRow(id, nom) ==
    [institution_id |-> id, institution_nom |-> nom, institution_type |-> <<"P">>, idx |-> 0]

InstRows == {InstRow(<<"i">>, <<"U">>),
             InstRow(None, <<"V">>),
             InstRow(<<"j">>, <<"U">>)}

MetaRow(inst, comp, idm, mention, idp) ==
    [institution_id |-> inst, composante |-> comp, domaine |-> <<"d">>,
     id_mention |-> idm, mention |-> mention, id_parcours |-> idp,
     parcours |-> <<"Y">>, idx |-> 0]

MetaRows == {MetaRow(<<"i">>, <<"c">>, <<"m">>, <<"X">>, <<"p">>),
             MetaRow(<<"j">>, <<"e">>, <<"n">>, <<"X">>, <<"q">>),
             MetaRow(<<"i">>, <<"c">>, <<"m">>, None, <<"p">>),
             MetaRow(<<"i">>, None, <<"n">>, <<"Z">>, <<"q">>)}

InscRow(ci, ce, nom, bacc, annee, idp) ==
    [code_inscription |-> ci, code_etudiant |-> ce, nom |-> nom, bacc_annee |-> bacc,
     annee_universitaire |-> annee, id_parcours |-> idp,
     code_semestre |-> <<"S", "0", "1">>, niveau |-> <<"L", "1">>, idx |-> 0]

InscRows == {InscRow(<<"a">>, <<"s">>, <<"A">>, <<"2">>, <<"y">>, <<"p">>),
             InscRow(<<"b">>, <<" ", "s">>, <<"B">>, None, <<"y">>, <<"p">>),
             InscRow(<<"c">>, <<"t">>, <<"C">>, <<"x">>, <<"y">>, None),
             InscRow(<<"d">>, <<"u">>, LongName, None, <<"y">>, <<"p">>),
             InscRow(None, <<"v">>, <<"D">>, None, None, <<"p">>)}

RECURSIVE SeqsUpTo(_, _)
SeqsUpTo(S, n) ==
    IF n = 0 THEN {<<>>}
    ELSE LET shorter == SeqsUpTo(S, n - 1)
         IN  shorter \cup {Append(q, x) : q \in {t \in shorter : Len(t) = n - 1}, x \in S}

\* a file: whether it can be read, its rows, and the columns of the model's
\* rows that its header does not have
Readable(rows) == [ok |-> TRUE, rows |-> rows, absent |-> {}]
Unreadable == [ok |-> FALSE, rows |-> <<>>, absent |-> {}]

WithoutColumns(file, cols) == [file EXCEPT !.absent = cols]

ReadNeverRaises(file) == FALSE
\* pd.read_excel raises on a file it cannot read
ReadRaises(file) == ~file.ok

FilesOf(S) == {Unreadable} \cup {Readable(q) : q \in SeqsUpTo(S, MaxRows)}

\* a store in which another tool has already registered the academic year
\* (the loader itself never sets ordre_annee)
YearRow == [annee |-> <<"y">>, ordre_annee |-> <<"1">>]

(* ------------------------------------------------------------------ *)
(* State                                                              *)
(* ------------------------------------------------------------------ *)
VARIABLES
    input,            \* the three source files, fixed for the life of the store
    db,               \* committed rows of every table
    tx,               \* rows as the open transaction sees them
    pending,          \* merged objects not yet flushed
    open,             \* sessions obtained from get_session and not closed
    pc,               \* position of the run
    runs,             \* number of runs of import_all_data started
    df,               \* the data frame loaded by the current stage
    i,                \* position of the current row loop in its frame
    etudiant_errors,  \* _import_etudiants: etudiant_errors
    errors,           \* _import_inscriptions: errors_fk, errors_uq, errors_data, errors_other
    out,              \* messages printed during the run
    log,              \* entries of import_errors.log
    hist,             \* stage events of the run, in order
    metaFailed,       \* the hierarchy stage of this run failed
    attempted,        \* row indices the enrollment loop has entered
    raised,           \* enrollment attempts that raised
    born,             \* for every committed key: stage and commit that created it
    ncommit,          \* commits issued so far
    snap,             \* the store as the first run left it
    nullKey,          \* upserts whose key cell was absent in the source
    fn                \* pure-function harness: arguments and result

vars == <<input, db, tx, pending, open, pc, runs, df, i, etudiant_errors, errors,
          out, log, hist, metaFailed, attempted, raised, born, ncommit, snap,
          nullKey, fn>>

NoErrors == [fk |-> 0, uq |-> 0, data |-> 0, other |-> 0]

NoFn == [niveau |-> <<>>, sem |-> <<>>, once |-> <<>>, twice |-> <<>>, applied |-> FALSE]

Msg(ev, n) == [ev |-> ev, n |-> n]

Printed(ev) == \E k \in 1..Len(out) : out[k].ev = ev

Happened(ev) == \E k \in 1..Len(hist) : hist[k] = ev

Stamps(old, new, st, sq) ==
    UNION {{[tbl |-> t, key |-> r[PrimaryKey[t]], stage |-> st, seq |-> sq] :
              r \in {x \in new[t] : \A y \in old[t] : ~SameKey(t, x, y)}} : t \in Tables}

\* stage k (1 references, 2 hierarchy, 3 enrollments) of the current run
StageNo(k) == (runs - 1) * 3 + k

InitCommon(startDb) ==
    /\ db = startDb
    /\ tx = startDb
    /\ pending = <<>>
    /\ open = {}
    /\ pc = "idle"
    /\ runs = 0
    /\ df = <<>>
    /\ i = 1
    /\ etudiant_errors = 0
    /\ errors = NoErrors
    /\ out = <<>>
    /\ log = <<>>
    /\ hist = <<>>
    /\ metaFailed = FALSE
    /\ attempted = <<>>
    /\ raised = 0
    /\ born = Stamps(EmptyDb, startDb, 0, 0)
    /\ ncommit = 0
    /\ snap = EmptyDb
    /\ nullKey = {}
    /\ fn = NoFn

\* a store in which the label 'Licence' is already taken by a cycle of another
\* code (Cycle.label is unique)
LegacyCycleRow == [code |-> <<"X">>, label |-> <<"Licence">>]

StartDbs == {EmptyDb,
             [EmptyDb EXCEPT !["annees_universitaires"] = {YearRow}],
             [EmptyDb EXCEPT !["cycles"] = {LegacyCycleRow}]}

GoodInst == Readable(<<InstRow(<<"i">>, <<"U">>)>>)
GoodMeta == Readable(<<MetaRow(<<"i">>, <<"c">>, <<"m">>, <<"X">>, <<"p">>)>>)
GoodInsc == Readable(<<InscRow(<<"a">>, <<"s">>, <<"A">>, <<"2">>, <<"y">>, <<"p">>)>>)

\* columns of the enrollment file that no key is made of
OptionalColumns == {"naissance_date", "cin_date", "prenoms", "bacc_annee"}

\* one file varies over every table of at most MaxRows rows while the two
\* others are a fixed readable file; the enrollment file also comes without
\* one of its optional columns
Inputs ==
    {[inst |-> GoodInst, meta |-> GoodMeta, insc |-> WithoutColumns(GoodInsc, {c})] :
        c \in OptionalColumns} \cup
    {[inst |-> a, meta |-> GoodMeta, insc |-> GoodInsc] : a \in FilesOf(InstRows)}
    \cup {[inst |-> GoodInst, meta |-> b, insc |-> GoodInsc] : b \in FilesOf(MetaRows)}
    \cup {[inst |-> Unreadable, meta |-> Unreadable, insc |-> GoodInsc]}
    \cup {[inst |-> GoodInst, meta |-> GoodMeta, insc |-> c] : c \in FilesOf(InscRows)}

Init ==
    /\ input \in Inputs
    /\ \E d \in StartDbs : InitCommon(d)


(* ------------------------------------------------------------------ *)
(* Orchestrator: import_all_data                                      *)
(* ------------------------------------------------------------------ *)
StageOrderSwapped == <<"references", "enrollments", "hierarchy">>
StageOrder == <<"references", "hierarchy", "enrollments">>

EntryPc(stage) ==
    CASE stage = "references" -> "refs"
      [] stage = "hierarchy" -> "meta_start"
      [] stage = "enrollments" -> "insc_start"

ExceptPcContinues(stage) ==
    LET k == CHOOSE n \in 1..Len(StageOrder) : StageOrder[n] = stage
    IN  IF k = Len(StageOrder) THEN "epilogue" ELSE EntryPc(StageOrder[k + 1])
\* where import_all_data goes when `stage` has raised: its except branch
ExceptPc(stage) == "fatal"

\* where import_all_data goes when `stage` has returned normally
AfterPc(stage) ==
    LET k == CHOOSE n \in 1..Len(StageOrder) : StageOrder[n] = stage
    IN  IF k = Len(StageOrder) THEN "epilogue" ELSE EntryPc(StageOrder[k + 1])

StartRun ==
    /\ pc = "idle"
    /\ runs < MaxRuns
    /\ runs' = runs + 1
    /\ open' = GetSession(open, "main")
    /\ pc' = EntryPc(StageOrder[1])
    /\ out' = <<Msg("start", 0)>>
    /\ hist' = <<>>
    /\ metaFailed' = FALSE
    /\ etudiant_errors' = 0
    /\ errors' = NoErrors
    /\ attempted' = <<>>
    /\ raised' = 0
    /\ df' = <<>>
    /\ i' = 1
    /\ UNCHANGED <<input, db, tx, pending, log, born, ncommit, snap, nullKey, fn>>

\* lines 545-547, 552-553: the success banner, then finally: session.close()
Epilogue ==
    /\ pc = "epilogue"
    /\ out' = Append(out, Msg("global_success", 0))
    /\ open' = Close(open, "main")
    /\ pc' = "idle"
    /\ snap' = IF runs = 1 THEN db ELSE snap
    /\ UNCHANGED <<input, db, tx, pending, runs, df, i, etudiant_errors, errors, log,
                   hist, metaFailed, attempted, raised, born, ncommit, nullKey, fn>>

\* lines 549-553: except: session.rollback(), the fatal message; finally: close
Fatal ==
    /\ pc = "fatal"
    /\ tx' = Rollback(tx, db)
    /\ pending' = <<>>
    /\ out' = Append(out, Msg("fatal", 0))
    /\ open' = Close(open, "main")
    /\ pc' = "idle"
    /\ snap' = IF runs = 1 THEN db ELSE snap
    /\ UNCHANGED <<input, db, runs, df, i, etudiant_errors, errors, log,
                   hist, metaFailed, attempted, raised, born, ncommit, nullKey, fn>>

(* ------------------------------------------------------------------ *)
(* Reference Seeder: import_fixed_references                          *)
(* ------------------------------------------------------------------ *)
RECURSIVE Concat(_)
Concat(ss) == IF ss = <<>> THEN <<>> ELSE Head(ss) \o Concat(Tail(ss))

cycles_data == <<[code |-> <<"L">>, label |-> <<"Licence">>],
                 [code |-> <<"M">>, label |-> <<"Master">>],
                 [code |-> <<"D">>, label |-> <<"Doctorat">>]>>

NS(niv, cyc, a, b) == [niv |-> niv, cycle |-> cyc, sems |-> <<a, b>>]

niveau_semestre_map ==
    <<NS(<<"L", "1">>, <<"L">>, <<"S", "0", "1">>, <<"S", "0", "2">>),
      NS(<<"L", "2">>, <<"L">>, <<"S", "0", "3">>, <<"S", "0", "4">>),
      NS(<<"L", "3">>, <<"L">>, <<"S", "0", "5">>, <<"S", "0", "6">>),
      NS(<<"M", "1">>, <<"M">>, <<"S", "0", "7">>, <<"S", "0", "8">>),
      NS(<<"M", "2">>, <<"M">>, <<"S", "0", "9">>, <<"S", "1", "0">>),
      NS(<<"D", "1">>, <<"D">>, <<"S", "1", "1">>, <<"S", "1", "2">>),
      NS(<<"D", "2">>, <<"D">>, <<"S", "1", "3">>, <<"S", "1", "4">>),
      NS(<<"D", "3">>, <<"D">>, <<"S", "1", "5">>, <<"S", "1", "6">>)>>

types_inscription_data == <<[code |-> <<"C", "L", "A", "S">>, label |-> <<"Classique">>],
                            [code |-> <<"H", "Y", "B">>, label |-> <<"Hybride">>]>>

session_examen_data == <<[code_session |-> <<"N">>, label |-> <<"Normale">>],
                         [code_session |-> <<"R">>, label |-> <<"Rattrapage">>]>>

NiveauObjsFirstOnly(e) ==
    <<Obj("niveaux", [code |-> e.niv, cycle_code |-> e.cycle]),
      Obj("semestres", [code_semestre |-> e.niv \o <<"_">> \o e.sems[1],
                        numero_semestre |-> e.sems[1],
                        niveau_code |-> e.niv])>>
NiveauObjs(e) ==
    <<Obj("niveaux", [code |-> e.niv, cycle_code |-> e.cycle])>>
    \o [j \in 1..Len(e.sems) |->
          Obj("semestres", [code_semestre |-> e.niv \o <<"_">> \o e.sems[j],
                            numero_semestre |-> e.sems[j],
                            niveau_code |-> e.niv])]

ReferenceObjects ==
    [k \in 1..Len(cycles_data) |-> Obj("cycles", cycles_data[k])]
    \o Concat([k \in 1..Len(niveau_semestre_map) |-> NiveauObjs(niveau_semestre_map[k])])
    \o [k \in 1..Len(types_inscription_data) |-> Obj("types_inscription", types_inscription_data[k])]
    \o [k \in 1..Len(session_examen_data) |-> Obj("sessions_examen", session_examen_data[k])]

ImportFixedReferences ==
    /\ pc = "refs"
    /\ \E c \in {MergeAllCommit(Sess(tx, pending), ReferenceObjects)} :
           IF c.err = "none"
           THEN /\ db' = c.tx
                /\ tx' = c.tx
                /\ pending' = <<>>
                /\ born' = born \cup Stamps(db, c.tx, StageNo(1), ncommit + 1)
                /\ ncommit' = ncommit + 1
                /\ hist' = hist \o <<"refs_start", "refs_commit">>
                /\ out' = Append(out, Msg("refs_done", 0))
                /\ pc' = AfterPc("references")
           ELSE /\ tx' = c.tx
                /\ pending' = c.pending
                /\ hist' = Append(hist, "refs_start")
                /\ pc' = ExceptPc("references")
                /\ UNCHANGED <<db, born, ncommit, out>>
    /\ UNCHANGED <<input, open, runs, df, i, etudiant_errors, errors, log,
                   metaFailed, attempted, raised, snap, nullKey, fn>>


(* ------------------------------------------------------------------ *)
(* Hierarchy Loader: import_metadata_to_db and its helpers            *)
(* ------------------------------------------------------------------ *)
\* the (table, column) pairs under which a kept row is upserted although
\* the cell of that column was absent in the source rows
NullCells(tbl, kept, src, cols) ==
    {[tbl |-> tbl, col |-> c] :
        c \in {x \in cols : \E k \in 1..Len(kept) : IsNull(src[kept[k].idx + 1][x])}}

\* _import_institutions, lines 113-118
InstitutionFrame(rows) ==
    LET raw == WithIndex(rows)
        cleaned == [k \in 1..Len(raw) |-> [raw[k] EXCEPT !.institution_id = CleanKey(@)]]
    IN  DropNa(DropDuplicates(cleaned, "institution_id"), {"institution_id"})

InstitutionObjects(frame) ==
    [k \in 1..Len(frame) |->
        Obj("institutions", [id_institution |-> frame[k].institution_id,
                             nom |-> safe_string(frame[k].institution_nom),
                             type_institution |-> safe_string(frame[k].institution_type)])]

\* _load_and_clean_metadata, lines 224-236
MetadataFrame(rows) ==
    LET raw == WithIndex(rows)
    IN  [k \in 1..Len(raw) |->
            [raw[k] EXCEPT !.institution_id = CleanKey(@),
                           !.composante = CleanKey(@),
                           !.domaine = CleanKey(@),
                           !.id_mention = CleanKey(@),
                           !.id_parcours = CleanKey(@)]]

ComposanteFrame(d) ==
    DropNa(DropDuplicates(d, "composante"), {"composante", "institution_id"})

ComposanteObjects(d) ==
    LET f == ComposanteFrame(d)
    IN  [k \in 1..Len(f) |->
            Obj("composantes", [code |-> f[k].composante,
                                id_institution |-> f[k].institution_id])]

DomaineFrame(d) == DropNa(DropDuplicates(d, "domaine"), {"domaine"})

DomaineObjects(d) ==
    LET f == DomaineFrame(d)
    IN  [k \in 1..Len(f) |-> Obj("domaines", [code |-> f[k].domaine])]

MentionFrame(d) ==
    DropNa(DropDuplicates(d, "id_mention"), {"id_mention", "composante", "domaine", "mention"})

MentionObjects(d) ==
    LET f == MentionFrame(d)
    IN  [k \in 1..Len(f) |->
            Obj("mentions", [id_mention |-> f[k].id_mention,
                             code_mention |-> safe_string(f[k].mention),
                             composante_code |-> f[k].composante,
                             domaine_code |-> f[k].domaine])]

ParcoursFrame(d) ==
    DropNa(DropDuplicates(d, "id_parcours"), {"id_parcours", "id_mention", "parcours"})

ParcoursObjects(d) ==
    LET f == ParcoursFrame(d)
    IN  [k \in 1..Len(f) |->
            Obj("parcours", [id_parcours |-> f[k].id_parcours,
                             code_parcours |-> safe_string(f[k].parcours),
                             mention_id |-> f[k].id_mention])]

\* import_metadata_to_db returns to import_all_data (finally: session.close())
MetaReturns(failed, events, message) ==
    /\ hist' = hist \o events
    /\ metaFailed' = failed
    /\ out' = Append(out, Msg(message, 0))
    /\ open' = Close(open, "meta")
    /\ pc' = AfterPc("hierarchy")

\* lines 271-275: except: session.rollback(), the error message; finally: close
MetaExcept ==
    /\ tx' = Rollback(tx, db)
    /\ pending' = <<>>
    /\ MetaReturns(TRUE, <<"meta_return">>, "meta_error")

ImportInstitutions ==
    /\ pc = "meta_start"
    /\ \E frame \in {InstitutionFrame(input.inst.rows)} :
       \E c \in {MergeAllCommit(Sess(tx, pending), InstitutionObjects(frame))} :
           IF ~ReadRaises(input.inst) /\ c.err = "none"
           THEN /\ db' = c.tx
                /\ tx' = c.tx
                /\ pending' = <<>>
                /\ born' = born \cup Stamps(db, c.tx, StageNo(2), ncommit + 1)
                /\ ncommit' = ncommit + 1
                /\ nullKey' = nullKey \cup NullCells("institutions", frame, input.inst.rows,
                                                     {"institution_id"})
                /\ hist' = Append(hist, "meta_start")
                /\ out' = Append(out, Msg("inst_done", 0))
                /\ open' = GetSession(open, "meta")
                /\ pc' = "meta_load"
                /\ UNCHANGED metaFailed
           ELSE /\ tx' = Rollback(tx, db)
                /\ pending' = <<>>
                /\ MetaReturns(TRUE, <<"meta_start", "meta_return">>, "inst_error")
                /\ UNCHANGED <<db, born, ncommit, nullKey>>
    /\ UNCHANGED <<input, runs, df, i, etudiant_errors, errors, log,
                   attempted, raised, snap, fn>>

LoadAndCleanMetadata ==
    /\ pc = "meta_load"
    /\ IF ~ReadRaises(input.meta)
       THEN /\ df' = MetadataFrame(input.meta.rows)
            /\ out' = Append(out, Msg("meta_loaded", Len(input.meta.rows)))
            /\ pc' = "composantes"
            /\ UNCHANGED <<hist, metaFailed, open>>
       ELSE /\ MetaReturns(TRUE, <<"meta_return">>, "meta_unreadable")
            /\ UNCHANGED df
    /\ UNCHANGED <<input, db, tx, pending, runs, i, etudiant_errors, errors, log,
                   attempted, raised, born, ncommit, snap, nullKey, fn>>

HierarchyStep(here, next, objs) ==
    /\ pc = here
    /\ \E m \in {MergeAll(Sess(tx, pending), objs)} :
           IF m.err = "none"
           THEN /\ tx' = m.tx
                /\ pending' = m.pending
                /\ pc' = next
                /\ UNCHANGED <<hist, metaFailed, out, open>>
           ELSE MetaExcept
    /\ UNCHANGED <<input, db, runs, df, i, etudiant_errors, errors, log,
                   attempted, raised, born, ncommit, snap, nullKey, fn>>

ImportComposantes == HierarchyStep("composantes", "domaines", ComposanteObjects(df))

ImportDomaines == HierarchyStep("domaines", "mentions", DomaineObjects(df))

ImportMentions == HierarchyStep("mentions", "parcours", MentionObjects(df))

ImportParcours == HierarchyStep("parcours", "meta_commit", ParcoursObjects(df))

\* line 268: session.commit() of the hierarchy transaction
MetaCommit ==
    /\ pc = "meta_commit"
    /\ \E c \in {Commit(Sess(tx, pending))} :
       LET src == input.meta.rows
       IN  IF c.err = "none"
           THEN /\ db' = c.tx
                /\ tx' = c.tx
                /\ pending' = <<>>
                /\ born' = born \cup Stamps(db, c.tx, StageNo(2), ncommit + 1)
                /\ ncommit' = ncommit + 1
                /\ nullKey' = nullKey
                      \cup NullCells("composantes", ComposanteFrame(df), src,
                                     {"composante", "institution_id"})
                      \cup NullCells("domaines", DomaineFrame(df), src, {"domaine"})
                      \cup NullCells("mentions", MentionFrame(df), src,
                                     {"id_mention", "composante", "domaine"})
                      \cup NullCells("parcours", ParcoursFrame(df), src,
                                     {"id_parcours", "id_mention"})
                /\ MetaReturns(FALSE, <<"meta_return">>, "meta_success")
           ELSE /\ MetaExcept
                /\ UNCHANGED <<db, born, ncommit, nullKey>>
    /\ UNCHANGED <<input, runs, df, i, etudiant_errors, errors, log,
                   attempted, raised, snap, fn>>


(* ------------------------------------------------------------------ *)
(* Enrollment Loader: import_inscriptions_to_db and its helpers       *)
(* ------------------------------------------------------------------ *)
DefaultTypeInscription == <<"C", "L", "A", "S">>

LowerCase == <<"a", "b", "c", "d", "e", "f", "g", "h", "i", "j", "k", "l", "m",
               "n", "o", "p", "q", "r", "s", "t", "u", "v", "w", "x", "y", "z">>
UpperCase == <<"A", "B", "C", "D", "E", "F", "G", "H", "I", "J", "K", "L", "M",
               "N", "O", "P", "Q", "R", "S", "T", "U", "V", "W", "X", "Y", "Z">>

\* str.upper()
Upper(s) ==
    [k \in 1..Len(s) |->
        IF \E j \in 1..Len(LowerCase) : LowerCase[j] = s[k]
        THEN UpperCase[CHOOSE j \in 1..Len(LowerCase) : LowerCase[j] = s[k]]
        ELSE s[k]]

CLASSIQUE == <<"C", "L", "A", "S", "S", "I", "Q", "U", "E">>
HYBRIDE == <<"H", "Y", "B", "R", "I", "D", "E">>

\* Series.replace({'CLASSIQUE': 'CLAS', 'HYBRIDE': 'HYB'}): whole values only
ReplaceSynonym(v) ==
    IF v = CLASSIQUE THEN <<"C", "L", "A", "S">>
    ELSE IF v = HYBRIDE THEN <<"H", "Y", "B">>
    ELSE v

\* lines 340-361 for one row of a file whose type columns are `cols`:
\* tf is the cell of type_formation, cti the cell of code_type_inscription
TypeInscriptionCell(cols, tf, cti) ==
    LET renamed == IF "code_type_inscription" \in cols THEN cti ELSE tf
        standard == IF "type_formation" \in cols
                    THEN ReplaceSynonym(Upper(AsTypeStr(renamed)))
                    ELSE renamed
    IN  IF cols = {} THEN DefaultTypeInscription
        ELSE safe_string(AsTypeStr(standard))

\* _load_and_clean_inscriptions, lines 288-364, for a file that has the
\* columns id_parcours, code_semestre and niveau and no type column
InscriptionFrame(rows) ==
    LET raw == WithIndex(rows)
    IN  [k \in 1..Len(raw) |->
            LET r == raw[k]
                niveau_code == CleanKey(r.niveau)
            IN  [code_inscription |-> r.code_inscription,
                 code_etudiant |-> r.code_etudiant,
                 nom |-> r.nom,
                 bacc_annee |-> r.bacc_annee,
                 annee_universitaire |-> r.annee_universitaire,
                 id_parcours |-> CleanKey(r.id_parcours),
                 niveau_code |-> niveau_code,
                 code_semestre |-> EnrichSemestre(niveau_code, CleanKey(r.code_semestre)),
                 code_type_inscription |-> TypeInscriptionCell({}, None, None),
                 idx |-> r.idx]]

AnneeFrame(d) == DropNa(DropDuplicates(d, "annee_universitaire"), {"annee_universitaire"})

AnneeObjects(d) ==
    LET f == AnneeFrame(d)
    IN  [k \in 1..Len(f) |->
            Obj("annees_universitaires",
                [annee |-> safe_string(f[k].annee_universitaire), ordre_annee |-> Unset])]

EtudiantFrame(d) == DropNa(DropDuplicates(d, "code_etudiant"), {"code_etudiant", "nom"})

Digits == {"0", "1", "2", "3", "4", "5", "6", "7", "8", "9"}

\* int(v) raises ValueError
IntRaises(v) ==
    LET t == Strip(v) IN t = <<>> \/ \E k \in 1..Len(t) : t[k] \notin Digits

\* line 410
BaccAnneeRaises(row) == PdNotna(row.bacc_annee) /\ IntRaises(row.bacc_annee)

EtudiantObject(row) ==
    Obj("etudiants", [code_etudiant |-> safe_string(row.code_etudiant),
                      nom |-> safe_string(row.nom)])

cles_requises == {"code_inscription", "code_etudiant", "annee_universitaire",
                  "id_parcours", "code_semestre", "code_type_inscription"}

InscriptionDataFrame(d) == DropNa(d, cles_requises)

\* keyword arguments of the Inscription(...) call, lines 447-455
InscriptionKwargs == {"code_inscription", "code_etudiant", "annee_universitaire",
                      "id_parcours", "code_semestre", "code_type_inscription"}

\* attributes of the mapped class Inscription, src/models.py
InscriptionAttributes == {"code_inscription", "code_etudiant", "annee_universitaire",
                          "id_parcours", "code_semestre", "code_mode_inscription",
                          "code_type_formation", "credit_acquis_semestre",
                          "is_semestre_valide", "etudiant", "annee_univ", "parcours",
                          "semestre", "mode_inscription", "type_formation"}

\* the declarative constructor raises TypeError on a keyword that is no
\* attribute of the class
ConstructorRaises(kwargs, attributes) == \E k \in kwargs : k \notin attributes

InscriptionObject(row) ==
    Obj("inscriptions", [code_inscription |-> safe_string(row.code_inscription),
                         code_etudiant |-> safe_string(row.code_etudiant),
                         annee_universitaire |-> safe_string(row.annee_universitaire),
                         id_parcours |-> row.id_parcours,
                         code_semestre |-> safe_string(row.code_semestre),
                         code_mode_inscription |-> Unset,
                         code_type_formation |-> Unset])

CommitEvery == 500

\* lines 291-293: df[col] for col in date_cols
date_cols == {"naissance_date", "cin_date"}

\* _load_and_clean_inscriptions ends in its except branch and returns None
LoadRaises(file) == ReadRaises(file) \/ date_cols \cap file.absent # {}

\* columns _import_etudiants reads with row[...] (lines 397-410); the others
\* are read with row.get(...)
EtudiantSubscripts == {"naissance_date", "cin_date", "nom", "prenoms", "bacc_annee"}

\* row[col] raises KeyError
SubscriptRaises(file) == EtudiantSubscripts \cap file.absent # {}

\* lines 461-476: the counter an exception of the enrollment loop increments
ClassifyDropOther(e) ==
    CASE e = "fk" -> "fk"
      [] e \in {"unique", "notnull"} -> "uq"
      [] e = "data" -> "data"
      [] OTHER -> "none"
Classify(e) ==
    CASE e = "fk" -> "fk"
      [] e \in {"unique", "notnull"} -> "uq"
      [] e = "data" -> "data"
      [] OTHER -> "other"

Bump(errs, c) == IF c \in DOMAIN errs THEN [errs EXCEPT ![c] = @ + 1] ELSE errs

\* the row the enrollment loop takes after row k of a frame of n rows
NextRowAbortOnFailure(k, n, failed) == IF failed THEN n + 1 ELSE k + 1
NextRow(k, n, failed) == k + 1

\* line 421: session.commit() after each student
EtudiantRowNoCommit(s) == s
EtudiantRowCommit(s) == Commit(s)

EtudiantLoopOverEarly(k, n) == TRUE
\* the loop of _import_etudiants is over once it has passed the last row
EtudiantLoopOver(k, n) == k > n

LogEntryNoLocator(kind, key, idx, cause) == [kind |-> kind, key |-> key, idx |-> 0, cause |-> cause]
LogEntry(kind, key, idx, cause) == [kind |-> kind, key |-> key, idx |-> idx, cause |-> cause]

LoadAndCleanInscriptions ==
    /\ pc = "insc_start"
    /\ IF ~LoadRaises(input.insc)
       THEN /\ df' = InscriptionFrame(input.insc.rows)
            /\ out' = Append(out, Msg("insc_loaded", Len(input.insc.rows)))
            /\ hist' = Append(hist, "insc_start")
            /\ open' = GetSession(open, "insc")
            /\ pc' = "annees"
       ELSE /\ out' = Append(out, Msg("insc_cancelled", 0))
            /\ hist' = hist \o <<"insc_start", "insc_return">>
            /\ pc' = AfterPc("enrollments")
            /\ UNCHANGED <<df, open>>
    /\ i' = 1
    /\ UNCHANGED <<input, db, tx, pending, runs, etudiant_errors, errors, log,
                   metaFailed, attempted, raised, born, ncommit, snap, nullKey, fn>>

\* _import_annees_universitaires; an exception leaves import_inscriptions_to_db
\* through its finally (session.close()) and reaches import_all_data
ImportAnnees ==
    /\ pc = "annees"
    /\ \E c \in {MergeAllCommit(Sess(tx, pending), AnneeObjects(df))} :
           IF c.err = "none"
           THEN /\ db' = c.tx
                /\ tx' = c.tx
                /\ pending' = <<>>
                /\ born' = born \cup Stamps(db, c.tx, StageNo(3), ncommit + 1)
                /\ ncommit' = ncommit + 1
                /\ out' = Append(out, Msg("annees_done", 0))
                /\ pc' = "etudiants"
                /\ UNCHANGED open
           ELSE /\ tx' = db
                /\ pending' = <<>>
                /\ open' = Close(open, "insc")
                /\ pc' = ExceptPc("enrollments")
                /\ UNCHANGED <<db, born, ncommit, out>>
    /\ i' = 1
    /\ UNCHANGED <<input, runs, df, etudiant_errors, errors, log, hist,
                   metaFailed, attempted, raised, snap, nullKey, fn>>

\* one iteration of the loop of _import_etudiants, lines 393-429
ImportEtudiantRow ==
    /\ pc = "etudiants"
    /\ i <= Len(EtudiantFrame(df))
    /\ LET row == EtudiantFrame(df)[i]
           m == Merge(Sess(tx, pending), EtudiantObject(row))
           c == IF m.err = "none" THEN EtudiantRowCommit(m) ELSE m
           cause == IF SubscriptRaises(input.insc) THEN "key"
                    ELSE IF BaccAnneeRaises(row) THEN "value" ELSE c.err
       IN  IF cause = "none"
           THEN /\ db' = IF c.pending = <<>> THEN c.tx ELSE db
                /\ tx' = c.tx
                /\ pending' = c.pending
                /\ born' = IF c.pending = <<>>
                           THEN born \cup Stamps(db, c.tx, StageNo(3), ncommit + 1)
                           ELSE born
                /\ ncommit' = ncommit + 1
                /\ UNCHANGED <<etudiant_errors, out, log>>
           ELSE /\ tx' = Rollback(tx, db)
                /\ pending' = <<>>
                /\ etudiant_errors' = etudiant_errors + 1
                /\ out' = Append(out, Msg("etudiant_error", row.idx))
                /\ log' = Append(log, LogEntry("ETUDIANT", row.code_etudiant, row.idx, cause))
                /\ UNCHANGED <<db, born, ncommit>>
    /\ i' = i + 1
    /\ UNCHANGED <<input, open, pc, runs, df, errors, hist, metaFailed,
                   attempted, raised, snap, nullKey, fn>>

\* line 431: the loop is over
EtudiantsDone ==
    /\ pc = "etudiants"
    /\ EtudiantLoopOver(i, Len(EtudiantFrame(df)))
    /\ out' = Append(out, Msg("etudiants_done", etudiant_errors))
    /\ pc' = "inscriptions"
    /\ i' = 1
    /\ UNCHANGED <<input, db, tx, pending, open, runs, df, etudiant_errors, errors, log,
                   hist, metaFailed, attempted, raised, born, ncommit, snap, nullKey, fn>>

\* one iteration of the loop of _import_inscriptions, lines 443-476
ImportInscriptionRow ==
    /\ pc = "inscriptions"
    /\ i <= Len(InscriptionDataFrame(df))
    /\ LET frame == InscriptionDataFrame(df)
           row == frame[i]
           m == Merge(Sess(tx, pending), InscriptionObject(row))
           c == IF m.err = "none" /\ (row.idx + 1) % CommitEvery = 0 THEN Commit(m) ELSE m
           cause == IF ConstructorRaises(InscriptionKwargs, InscriptionAttributes)
                    THEN "type" ELSE c.err
       IN  /\ IF cause = "none"
              THEN /\ db' = IF c.pending = <<>> THEN c.tx ELSE db
                   /\ tx' = c.tx
                   /\ pending' = c.pending
                   /\ born' = IF c.pending = <<>>
                              THEN born \cup Stamps(db, c.tx, StageNo(3), ncommit + 1)
                              ELSE born
                   /\ ncommit' = IF c.pending = <<>> THEN ncommit + 1 ELSE ncommit
                   /\ UNCHANGED <<errors, raised, log>>
              ELSE /\ tx' = Rollback(tx, db)
                   /\ pending' = <<>>
                   /\ errors' = Bump(errors, Classify(cause))
                   /\ raised' = raised + 1
                   /\ log' = Append(log, LogEntry("INSCRIPTION", row.code_inscription,
                                                  row.idx, cause))
                   /\ UNCHANGED <<db, born, ncommit>>
           /\ i' = NextRow(i, Len(frame), cause # "none")
    /\ attempted' = Append(attempted, i)
    /\ UNCHANGED <<input, open, pc, runs, df, etudiant_errors, out, hist, metaFailed,
                   snap, nullKey, fn>>

\* lines 478-488, then import_inscriptions_to_db returns (finally: close)
InscriptionsFinalCommit ==
    /\ pc = "inscriptions"
    /\ i > Len(InscriptionDataFrame(df))
    /\ \E c \in {Commit(Sess(tx, pending))} :
           IF c.err = "none"
           THEN /\ db' = IF c.pending = <<>> THEN c.tx ELSE db
                /\ tx' = c.tx
                /\ pending' = c.pending
                /\ born' = born \cup Stamps(db, c.tx, StageNo(3), ncommit + 1)
                /\ ncommit' = ncommit + 1
                /\ out' = out \o <<Msg("insc_done", 0),
                                   Msg("recap_fk_uq", errors.fk + errors.uq),
                                   Msg("recap_data", errors.data),
                                   Msg("recap_other", errors.other)>>
           ELSE /\ tx' = Rollback(tx, db)
                /\ pending' = <<>>
                /\ out' = Append(out, Msg("final_commit_error", 0))
                /\ UNCHANGED <<db, born, ncommit>>
    /\ hist' = Append(hist, "insc_return")
    /\ open' = Close(open, "insc")
    /\ pc' = AfterPc("enrollments")
    /\ UNCHANGED <<input, runs, df, i, etudiant_errors, errors, log, metaFailed,
                   attempted, raised, snap, nullKey, fn>>

Next ==
    \/ StartRun
    \/ ImportFixedReferences
    \/ ImportInstitutions
    \/ LoadAndCleanMetadata
    \/ ImportComposantes
    \/ ImportDomaines
    \/ ImportMentions
    \/ ImportParcours
    \/ MetaCommit
    \/ LoadAndCleanInscriptions
    \/ ImportAnnees
    \/ ImportEtudiantRow
    \/ EtudiantsDone
    \/ ImportInscriptionRow
    \/ InscriptionsFinalCommit
    \/ Epilogue
    \/ Fatal

Spec == Init /\ [][Next]_vars


(* ------------------------------------------------------------------ *)
(* Semester enrichment as a function of two cells                     *)
(* ------------------------------------------------------------------ *)
Chars == {"S", "1", "_", " "}

Cells == {None} \cup SeqsUpTo(Chars, MaxStrLen)

\* lines 319-332 applied to one row: both cells go through astype(str) and
\* safe_string, then the lambda; a second pass cleans and enriches its result
EnrichApply ==
    /\ ~fn.applied
    /\ LET niveau_code == CleanKey(fn.niveau)
           first == EnrichSemestre(niveau_code, CleanKey(fn.sem))
       IN  fn' = [fn EXCEPT !.once = first,
                            !.twice = EnrichSemestre(niveau_code, CleanKey(first)),
                            !.applied = TRUE]
    /\ UNCHANGED <<input, db, tx, pending, open, pc, runs, df, i, etudiant_errors, errors,
                   out, log, hist, metaFailed, attempted, raised, born, ncommit, snap,
                   nullKey>>

InitEnrich ==
    /\ input = [inst |-> GoodInst, meta |-> GoodMeta, insc |-> GoodInsc]
    /\ db = EmptyDb
    /\ tx = EmptyDb
    /\ pending = <<>>
    /\ open = {}
    /\ pc = "idle"
    /\ runs = 0
    /\ df = <<>>
    /\ i = 1
    /\ etudiant_errors = 0
    /\ errors = NoErrors
    /\ out = <<>>
    /\ log = <<>>
    /\ hist = <<>>
    /\ metaFailed = FALSE
    /\ attempted = <<>>
    /\ raised = 0
    /\ born = {}
    /\ ncommit = 0
    /\ snap = EmptyDb
    /\ nullKey = {}
    /\ \E a \in Cells, b \in Cells :
          fn = [niveau |-> a, sem |-> b, once |-> <<>>, twice |-> <<>>, applied |-> FALSE]

NextEnrich == EnrichApply

SpecEnrich == InitEnrich /\ [][NextEnrich]_vars

(* ------------------------------------------------------------------ *)
(* Enrollment-type standardization as a function of the type columns  *)
(* ------------------------------------------------------------------ *)
TypeLayouts == SUBSET {"type_formation", "code_type_inscription"}

TypeCells == {None, <<>>, CLASSIQUE, HYBRIDE,
              <<"c", "l", "a", "s", "s", "i", "q", "u", "e">>,
              <<"H", "y", "b", "r", "i", "d", "e">>,
              <<" ", "C", "L", "A", "S", "S", "I", "Q", "U", "E">>,
              <<"C", "L", "A", "S">>, <<"h", "y", "b">>, <<"X">>}

\* lines 340-361 applied to the type cells of one row
TypeApply ==
    /\ ~fn.applied
    /\ fn' = [fn EXCEPT !.result = TypeInscriptionCell(fn.cols, fn.tf, fn.cti),
                        !.applied = TRUE]
    /\ UNCHANGED <<input, db, tx, pending, open, pc, runs, df, i, etudiant_errors, errors,
                   out, log, hist, metaFailed, attempted, raised, born, ncommit, snap,
                   nullKey>>

InitType ==
    /\ input = [inst |-> GoodInst, meta |-> GoodMeta, insc |-> GoodInsc]
    /\ db = EmptyDb
    /\ tx = EmptyDb
    /\ pending = <<>>
    /\ open = {}
    /\ pc = "idle"
    /\ runs = 0
    /\ df = <<>>
    /\ i = 1
    /\ etudiant_errors = 0
    /\ errors = NoErrors
    /\ out = <<>>
    /\ log = <<>>
    /\ hist = <<>>
    /\ metaFailed = FALSE
    /\ attempted = <<>>
    /\ raised = 0
    /\ born = {}
    /\ ncommit = 0
    /\ snap = EmptyDb
    /\ nullKey = {}
    /\ \E c \in TypeLayouts, a \in TypeCells, b \in TypeCells :
          fn = [cols |-> c, tf |-> a, cti |-> b, result |-> <<>>, applied |-> FALSE]

NextType == TypeApply

SpecType == InitType /\ [][NextType]_vars

(* ------------------------------------------------------------------ *)
(* Column aliasing as a function of the header of the enrollment file *)
(* ------------------------------------------------------------------ *)
\* the alias columns, in the order a header lists them
AliasColumns == <<"semestre_id", "semestre", "code_semestre",
                  "id_parcours_caractere", "id_parcours",
                  "type_formation", "code_type_inscription">>

\* the header of a file that has the alias columns `present`
HeaderOf(present) ==
    LET keep == {k \in 1..Len(AliasColumns) : AliasColumns[k] \in present}
        RECURSIVE Pick(_)
        Pick(k) == IF k > Len(AliasColumns) THEN <<>>
                   ELSE IF k \in keep THEN <<AliasColumns[k]>> \o Pick(k + 1)
                   ELSE Pick(k + 1)
    IN  Pick(1)

\* 'c' in df.columns
InColumns(h, c) == \E k \in 1..Len(h) : h[k] = c

\* number of columns of df named c
CountColumns(h, c) == Cardinality({k \in 1..Len(h) : h[k] = c})

\* df.rename(columns={a: b}, inplace=True): the column keeps its place and
\* its cells
Rename(h, a, b) == [k \in 1..Len(h) |-> IF h[k] = a THEN b ELSE h[k]]

\* lines 299-300, 305-308, 312-315, 340-344, 357-361: the column names of
\* the cleaned table, each at the place of the source column it comes from
\* (a column the loader adds comes last)
CleanedColumns(h) ==
    LET h1 == IF InColumns(h, "id_parcours_caractere")
              THEN Rename(h, "id_parcours_caractere", "id_parcours") ELSE h
        h2 == IF InColumns(h1, "semestre_id")
              THEN Rename(h1, "semestre_id", "code_semestre")
              ELSE IF InColumns(h1, "semestre") /\ ~InColumns(h1, "code_semestre")
              THEN Rename(h1, "semestre", "code_semestre")
              ELSE h1
        h3 == IF InColumns(h2, "type_formation") /\ ~InColumns(h2, "code_type_inscription")
              THEN Rename(h2, "type_formation", "code_type_inscription") ELSE h2
    IN  IF ~InColumns(h3, "code_type_inscription")
        THEN Append(h3, "code_type_inscription") ELSE h3

\* lines 302 and 319: df[c] = df[c].astype(str).apply(safe_string) where two
\* columns are named c; df[c] is then a table, not a column, and whether the
\* assignment (or the enrichment after it, line 324) raises depends on the
\* pandas release and on the other columns of the file
SetItemMayRaise(h) ==
    \E c \in {"id_parcours", "code_semestre"} : CountColumns(CleanedColumns(h), c) > 1

AliasLayouts == SUBSET {AliasColumns[k] : k \in 1..Len(AliasColumns)}

\* lines 299-361 applied to a header; a raise ends in the except of the
\* loader, which returns None
AliasApply ==
    /\ ~fn.applied
    /\ \E r \in (IF SetItemMayRaise(fn.header) THEN {TRUE, FALSE} ELSE {FALSE}) :
           fn' = [fn EXCEPT !.columns = IF r THEN <<>> ELSE CleanedColumns(fn.header),
                            !.raised = r,
                            !.applied = TRUE]
    /\ UNCHANGED <<input, db, tx, pending, open, pc, runs, df, i, etudiant_errors, errors,
                   out, log, hist, metaFailed, attempted, raised, born, ncommit, snap,
                   nullKey>>

InitAlias ==
    /\ input = [inst |-> GoodInst, meta |-> GoodMeta, insc |-> GoodInsc]
    /\ db = EmptyDb
    /\ tx = EmptyDb
    /\ pending = <<>>
    /\ open = {}
    /\ pc = "idle"
    /\ runs = 0
    /\ df = <<>>
    /\ i = 1
    /\ etudiant_errors = 0
    /\ errors = NoErrors
    /\ out = <<>>
    /\ log = <<>>
    /\ hist = <<>>
    /\ metaFailed = FALSE
    /\ attempted = <<>>
    /\ raised = 0
    /\ born = {}
    /\ ncommit = 0
    /\ snap = EmptyDb
    /\ nullKey = {}
    /\ \E present \in AliasLayouts :
          fn = [header |-> HeaderOf(present), columns |-> <<>>, raised |-> FALSE,
                applied |-> FALSE]

NextAlias == AliasApply

SpecAlias == InitAlias /\ [][NextAlias]_vars

(* ------------------------------------------------------------------ *)
(* Runs over an enrollment file long enough to reach a checkpoint     *)
(* ------------------------------------------------------------------ *)
DigitChars == <<"0", "1", "2", "3", "4", "5", "6", "7", "8", "9">>

\* the decimal numeral of k
RECURSIVE Dec(_)
Dec(k) == IF k < 10 THEN <<DigitChars[k + 1]>>
          ELSE Dec(k \div 10) \o <<DigitChars[(k % 10) + 1]>>

\* a file of n enrollments of one student, numbered from 1; the rows at the
\* positions in `lacking` have no enrollment code
BatchRows(n, lacking) ==
    [k \in 1..n |->
        InscRow(IF k \in lacking THEN None ELSE Dec(k), <<"s">>, <<"A">>, None,
                <<"y">>, <<"p">>)]

BatchFiles == {Readable(BatchRows(CommitEvery, {})),
               Readable(BatchRows(CommitEvery + 1, {CommitEvery}))}

InitBatch ==
    /\ input \in {[inst |-> GoodInst, meta |-> GoodMeta, insc |-> f] : f \in BatchFiles}
    /\ \E d \in StartDbs : InitCommon(d)

SpecBatch == InitBatch /\ [][Next]_vars

(* ------------------------------------------------------------------ *)
(* Properties                                                         *)
(* ------------------------------------------------------------------ *)
CanonicalEvents == <<"refs_start", "refs_commit", "meta_start", "meta_return",
                     "insc_start", "insc_return">>

\* C1: in every run the stage events occur in the order references start,
\* references commit, hierarchy start, hierarchy return, enrollments start,
\* enrollments return, each at most once: the events of a run are always a
\* prefix of that sequence.
C1_StagesInOrder ==
    /\ Len(hist) <= Len(CanonicalEvents)
    /\ \A k \in 1..Len(hist) : hist[k] = CanonicalEvents[k]

C1_Witness == pc = "epilogue" /\ hist = CanonicalEvents

\* C2: whenever the hierarchy stage failed, the enrollment stage is not
\* started in that run and the run does not print the global success banner.
C2_HierarchyFailureHalts ==
    metaFailed => ~Happened("insc_start") /\ ~Printed("global_success")

C3Ref(t, f, rt, rf) == [t |-> t, f |-> f, rt |-> rt, rf |-> rf]

\* the references of the hierarchy and enrollment tables
C3_References ==
    {C3Ref("composantes", "id_institution", "institutions", "id_institution"),
     C3Ref("mentions", "composante_code", "composantes", "code"),
     C3Ref("mentions", "domaine_code", "domaines", "code"),
     C3Ref("parcours", "mention_id", "mentions", "id_mention"),
     C3Ref("inscriptions", "code_etudiant", "etudiants", "code_etudiant"),
     C3Ref("inscriptions", "annee_universitaire", "annees_universitaires", "annee"),
     C3Ref("inscriptions", "id_parcours", "parcours", "id_parcours"),
     C3Ref("inscriptions", "code_semestre", "semestres", "code_semestre")}

C3_Tables == {"composantes", "mentions", "parcours", "inscriptions"}

BornOf(t, key) == CHOOSE b \in born : b.tbl = t /\ b.key = key

C3_Targets(t, r) == {k \in C3_References : k.t = t}

\* C3 (as stated): every committed component, program, track and enrollment
\* row references only rows that were committed in a strictly earlier stage.
C3_ForeignKeysFromPriorStage ==
    \A t \in C3_Tables : \A r \in db[t] : \A k \in C3_Targets(t, r) :
        \E x \in db[k.rt] :
            /\ x[k.rf] = r[k.f]
            /\ BornOf(k.rt, x[k.rf]).stage < BornOf(t, r[PrimaryKey[t]]).stage

\* C3 (amended): every committed component, program, track and enrollment
\* row references only rows that are committed in the store, by an earlier
\* commit or by the same commit.
C3_ForeignKeysResolve ==
    \A t \in C3_Tables : \A r \in db[t] : \A k \in C3_Targets(t, r) :
        \E x \in db[k.rt] :
            /\ x[k.rf] = r[k.f]
            /\ BornOf(k.rt, x[k.rf]).seq <= BornOf(t, r[PrimaryKey[t]]).seq

C3_Witness ==
    /\ db["parcours"] # {}
    /\ \E r \in db["composantes"] :
          BornOf("institutions", r.id_institution).seq < BornOf("composantes", r.code).seq

NoDuplicateKeys(d) ==
    \A t \in Tables : \A r1, r2 \in d[t] : SameKey(t, r1, r2) => r1 = r2

\* C4: no table ever holds two rows with the same natural key, and when a
\* second (or later) run on the same input has ended every table has the row
\* count the first run left.
C4_Idempotent ==
    /\ NoDuplicateKeys(db)
    /\ (pc = "idle" /\ runs >= 2) =>
          \A t \in Tables : Cardinality(db[t]) = Cardinality(snap[t])

C4_Witness ==
    /\ pc = "idle"
    /\ runs = 2
    /\ db["composantes"] # {}
    /\ db["etudiants"] # {}
    /\ Len(EtudiantFrame(df)) = 2
    /\ Cardinality(db["etudiants"]) = 1

\* the constructor or the store refuses this student row
StudentRejected(row) ==
    \/ {"naissance_date", "cin_date", "prenoms", "bacc_annee"} \cap input.insc.absent # {}
    \/ /\ ~IsNull(row.bacc_annee)
       /\ \/ Strip(row.bacc_annee) = <<>>
          \/ \E k \in 1..Len(Strip(row.bacc_annee)) : Strip(row.bacc_annee)[k] \notin Digits
    \/ Len(Strip(row.nom)) > 100
    \/ Len(Strip(row.code_etudiant)) > 50

\* C5: when the student loader has returned, its error count equals the
\* number of rejected student rows and every row that was not rejected is
\* committed (so with exactly one rejected row the count is one and all the
\* others are committed).
C5_StudentIsolation ==
    pc = "inscriptions" =>
        LET f == EtudiantFrame(df)
            rejected == {k \in 1..Len(f) : StudentRejected(f[k])}
        IN  /\ etudiant_errors = Cardinality(rejected)
            /\ \A k \in (1..Len(f)) \ rejected :
                  \E r \in db["etudiants"] : r.code_etudiant = Strip(f[k].code_etudiant)

C5_Witness ==
    /\ pc = "inscriptions"
    /\ etudiant_errors = 1
    /\ Len(EtudiantFrame(df)) = 2
    /\ \E k \in 1..Len(log) : log[k].kind = "ETUDIANT" /\ log[k].cause = "data"
    /\ db["etudiants"] # {}

UpTo(n) == [k \in 1..n |-> k]

\* C6: the enrollment loop enters the rows that passed the required-key
\* filter one after the other, each once, whatever failed before: while the
\* loop runs the rows entered are exactly the first i-1, when the loader has
\* returned they are all the rows of the filtered frame; and after a failed
\* row nothing of the transaction is left (it was rolled back).
C6_EveryRowAttemptedOnce ==
    /\ pc = "inscriptions" => attempted = UpTo(i - 1)
    /\ (Happened("insc_return") /\ Printed("etudiants_done")) =>
          attempted = UpTo(Len(InscriptionDataFrame(df)))
    /\ (pc = "inscriptions" /\ raised > 0 /\ raised = Len(attempted)) =>
          (tx = db /\ pending = <<>>)

C6_Witness ==
    /\ Happened("insc_return")
    /\ Len(attempted) = 2
    /\ raised = 2

\* C7: at every point the four category counters of the enrollment loader
\* add up to the number of attempts that raised.
C7_CountersSumToRaised ==
    errors.fk + errors.uq + errors.data + errors.other = raised

C7_Witness == pc = "inscriptions" /\ raised = 2 /\ errors.other = 2

\* source rows of the enrollment file in which a required key cell is absent
C8_LackingKey ==
    {k \in 1..Len(input.insc.rows) :
        \E f \in {"code_inscription", "code_etudiant", "annee_universitaire",
                  "id_parcours", "code_semestre"} : IsNull(input.insc.rows[k][f])}

\* C8: when the enrollment loader has ended, exactly the rows that lack no
\* required key were attempted and the number of rows lacking one is
\* reported as excluded.
C8_ExclusionsReported ==
    (Happened("insc_return") /\ Printed("insc_done")) =>
        /\ Len(attempted) = Len(input.insc.rows) - Cardinality(C8_LackingKey)
        /\ \E k \in 1..Len(out) :
              out[k].ev = "excluded" /\ out[k].n = Cardinality(C8_LackingKey)

\* C9: no row is ever upserted under a natural key or foreign key whose cell
\* was absent in the source.
C9_NoAbsentKeyUpserted == nullKey = {}

\* C10 (as stated): a cleaned semester value without '_' is enriched to
\* L_s, one with '_' is returned unchanged, and a second pass changes nothing.
C10_EnrichAsStated ==
    fn.applied =>
        LET L == CleanKey(fn.niveau)
            s == CleanKey(fn.sem)
        IN  /\ ~Contains(s, "_") => fn.once = L \o <<"_">> \o s
            /\ Contains(s, "_") => fn.once = s
            /\ fn.twice = fn.once

\* C10 (amended): a non-empty cleaned semester value without '_' is enriched
\* to L_s, an empty value or one with '_' is returned unchanged, and a
\* second pass changes nothing.
C10_EnrichIdempotent ==
    fn.applied =>
        LET L == CleanKey(fn.niveau)
            s == CleanKey(fn.sem)
        IN  /\ (s # <<>> /\ ~Contains(s, "_")) => fn.once = L \o <<"_">> \o s
            /\ (s = <<>> \/ Contains(s, "_")) => fn.once = s
            /\ fn.twice = fn.once

C10_Witness ==
    /\ fn.applied
    /\ fn.niveau = <<"S", "1">>
    /\ fn.sem = <<" ", "1">>
    /\ fn.once = <<"S", "1", "_", "1">>
    /\ fn.twice = fn.once

\* the value the loader standardizes: the enrollment-type column when the
\* file has one, else the formation-type column
C11_SourceCell == IF "code_type_inscription" \in fn.cols THEN fn.cti ELSE fn.tf

\* C11: a value that reads CLASSIQUE (HYBRIDE) in any letter case is stored
\* as CLAS (HYB) whichever type column carries it, a file with neither type
\* column gets CLAS on every row, and the field is never null.
C11_TypeStandardized ==
    fn.applied =>
        /\ fn.cols = {} => fn.result = <<"C", "L", "A", "S">>
        /\ (fn.cols # {} /\ ~IsNull(C11_SourceCell) /\ Upper(C11_SourceCell) = CLASSIQUE)
              => fn.result = <<"C", "L", "A", "S">>
        /\ (fn.cols # {} /\ ~IsNull(C11_SourceCell) /\ Upper(C11_SourceCell) = HYBRIDE)
              => fn.result = <<"H", "Y", "B">>
        /\ ~IsNull(fn.result)

\* C12: the enrollment loop issues a commit in the iteration of every 500th
\* row it attempts.
C12_CommitEvery500thAttempt ==
    [][(attempted' # attempted /\ Len(attempted') % CommitEvery = 0)
          => ncommit' = ncommit + 1]_vars

\* C13: when the enrollment loader has returned after its row loop, the final
\* commit has been issued (its success or its failure is printed) and no
\* merged row is left pending: the transaction holds exactly the committed
\* rows.
C13_NothingPendingOnReturn ==
    (Happened("insc_return") /\ Printed("etudiants_done")) =>
        /\ Printed("insc_done") \/ Printed("final_commit_error")
        /\ pending = <<>>
        /\ tx = db

C13_Witness ==
    /\ Happened("insc_return")
    /\ Printed("insc_done")
    /\ Len(attempted) = 2
    /\ db["etudiants"] # {}

C14_Report == [fk |-> "recap_fk", uq |-> "recap_uq", data |-> "recap_data",
               other |-> "recap_other"]

\* C14: when the enrollment loader has returned after its row loop, the
\* output holds, for each of the four categories, a line with the count of
\* that category.
C14_CountsReportedPerCategory ==
    (Happened("insc_return") /\ Printed("etudiants_done")) =>
        \A c \in DOMAIN C14_Report :
            \E k \in 1..Len(out) : out[k] = Msg(C14_Report[c], errors[c])

\* C15: no failure on a row is fatal to its stage: the hierarchy stage never
\* ends in its exception handler (its files were read when it gets there)
\* and no exception of the enrollment stage reaches the orchestrator.
C15_OnlyUnreadableFileIsFatal ==
    /\ ~Printed("meta_error")
    /\ pc # "fatal"

HierarchyTables == {"composantes", "domaines", "mentions", "parcours"}

HierarchySteps == {"composantes", "domaines", "mentions", "parcours", "meta_commit"}

\* C16: when the institution file or the metadata file is unreadable, the
\* hierarchy stage never reaches the loaders of the dependent entities and
\* no component, domain, program or track is merged, flushed or committed.
C16_UnreadableFileAborts ==
    (~input.inst.ok \/ ~input.meta.ok) =>
        /\ pc \notin HierarchySteps
        /\ \A t \in HierarchyTables : db[t] = {} /\ tx[t] = {}
        /\ \A k \in 1..Len(pending) : pending[k].tbl \notin HierarchyTables

C16_Witness ==
    /\ Happened("meta_return")
    /\ Printed("meta_unreadable")
    /\ input.inst.ok /\ ~input.meta.ok
    /\ db["institutions"] # {}

\* C17: when the hierarchy stage ends in its exception handler, no component,
\* domain, program or track of this run is committed, and the step that
\* fails leaves the store as it was and the transaction equal to the store.
C17_FailureRollsBackStageOnly ==
    /\ [](Printed("meta_error") =>
             \A b \in born : b.stage = StageNo(2) => b.tbl \notin HierarchyTables)
    /\ [][(~metaFailed /\ metaFailed' /\ pc \in HierarchySteps)
             => (db' = db /\ tx' = db /\ pending' = <<>>)]_vars

C17_Witness ==
    /\ runs = 2
    /\ Printed("meta_error")
    /\ db["institutions"] # {}
    /\ db["cycles"] # {}

\* C18: when import_all_data has returned, no session is open and no
\* transaction holds uncommitted work.
C18_SessionsReleased ==
    pc = "idle" => (open = {} /\ pending = <<>> /\ tx = db)

C18_Witness == pc = "idle" /\ runs = 1 /\ Printed("fatal") /\ Happened("meta_return")

C20_ReferenceContent ==
    Happened("refs_commit") =>
        /\ {r.code : r \in db["cycles"]} = {<<"L">>, <<"M">>, <<"D">>}
        /\ Cardinality(db["cycles"]) = 3
        /\ Cardinality(db["niveaux"]) = 8
        /\ \A n \in db["niveaux"] : \E c \in db["cycles"] : c.code = n.cycle_code
        /\ Cardinality(db["semestres"]) = 16
        /\ Cardinality(db["types_inscription"]) = 2
        /\ Cardinality(db["sessions_examen"]) = 2
        /\ \A n \in db["niveaux"] :
              Cardinality({x \in db["semestres"] : x.niveau_code = n.code}) = 2
        /\ \A x \in db["semestres"] :
              x.code_semestre = x.niveau_code \o <<"_">> \o x.numero_semestre
        /\ \A x, y \in db["semestres"] :
              (x.niveau_code = y.niveau_code /\ x.numero_semestre = y.numero_semestre)
                 => x = y

C20_Witness == runs = 2 /\ pc = "meta_start" /\ Happened("refs_commit")

ReferenceTables == {"cycles", "niveaux", "semestres", "types_inscription", "sessions_examen"}

\* the store held no reference row before the first run
C21_NoLegacyReference == \A b \in born : b.stage = 0 => b.tbl \notin ReferenceTables

\* C21: on a store that is empty or was seeded by earlier runs, the reference
\* seeder never raises, and after each later application the reference tables
\* hold the rows the first application left, with no key twice.
C21_SeederReapplies ==
    C21_NoLegacyReference =>
        /\ Happened("refs_start") => Happened("refs_commit")
        /\ (runs >= 2 /\ Happened("refs_commit")) =>
              \A t \in ReferenceTables :
                 /\ db[t] = snap[t]
                 /\ \A x, y \in db[t] : SameKey(t, x, y) => x = y

C21_Witness ==
    /\ runs = 2
    /\ Happened("refs_commit")
    /\ C21_NoLegacyReference
    /\ Cardinality(snap["semestres"]) = 16
    /\ pc = "epilogue"

\* C22: when the seeder has raised before its commit, no row of this run's
\* reference stage is committed, neither the hierarchy stage nor the
\* enrollment stage is started, and the run ends in the fatal branch.
C22_SeederFailureStopsRun ==
    (Happened("refs_start") /\ ~Happened("refs_commit")) =>
        /\ \A b \in born : b.stage # StageNo(1)
        /\ \A t \in ReferenceTables \ {"cycles"} : db[t] = {}
        /\ ~Happened("meta_start")
        /\ ~Happened("insc_start")
        /\ pc \in {"fatal", "idle"}
        /\ ~Printed("global_success")

C22_Witness ==
    /\ Happened("refs_start")
    /\ ~Happened("refs_commit")
    /\ pc = "idle"
    /\ Printed("fatal")
    /\ db["cycles"] = {LegacyCycleRow}

\* C23: when an enrollment row has been attempted, the academic years have
\* been committed, the student loop has ended, and every row of the student
\* frame has been either committed or rejected and logged.
C23_StudentsBeforeEnrollments ==
    attempted # <<>> =>
        /\ Printed("annees_done")
        /\ Printed("etudiants_done")
        /\ \A k \in 1..Len(EtudiantFrame(df)) :
              LET row == EtudiantFrame(df)[k]
              IN  \/ \E r \in db["etudiants"] :
                        r.code_etudiant = safe_string(row.code_etudiant)
                  \/ \E j \in 1..Len(log) :
                        log[j].kind = "ETUDIANT" /\ log[j].idx = row.idx

C23_Witness ==
    /\ Len(attempted) = 1
    /\ pc = "inscriptions"
    /\ etudiant_errors = 1
    /\ Cardinality(db["etudiants"]) = 1
    /\ Len(EtudiantFrame(df)) = 2

\* natural keys of the committed rows of a table
C24_Keys(d, t) == {r[PrimaryKey[t]] : r \in d[t]}

\* C24: no step of the pipeline removes a committed natural key from any
\* table.
C24_NoDelete ==
    [][\A t \in Tables : C24_Keys(db, t) \subseteq C24_Keys(db', t)]_vars

C24_Witness ==
    /\ runs = 2
    /\ pc = "idle"
    /\ Printed("global_success")
    /\ db["etudiants"] # {}
    /\ db["parcours"] # {}
    /\ etudiant_errors = 1

\* the sum of the student error count and the four enrollment counters
C25_Counted(n, errs) == n + errs.fk + errs.uq + errs.data + errs.other

\* C25: every log entry names a student or an enrollment row of the source
\* by its kind, its key as read, its row index and a failure cause, and in
\* every step of a run the log grows by as many entries as the student error
\* count and the four enrollment counters grow together.
C25_OneLogEntryPerFailedRow ==
    /\ [](\A j \in 1..Len(log) :
             /\ log[j].kind \in {"ETUDIANT", "INSCRIPTION"}
             /\ log[j].cause # "none"
             /\ log[j].idx + 1 \in 1..Len(input.insc.rows)
             /\ log[j].key = IF log[j].kind = "ETUDIANT"
                             THEN input.insc.rows[log[j].idx + 1].code_etudiant
                             ELSE input.insc.rows[log[j].idx + 1].code_inscription)
    /\ [][pc # "idle" =>
             Len(log') - Len(log) = C25_Counted(etudiant_errors', errors')
                                     - C25_Counted(etudiant_errors, errors)]_vars

C25_Witness ==
    /\ runs = 1
    /\ Happened("insc_return")
    /\ etudiant_errors = 1
    /\ raised = 2
    /\ Len(log) = 3
    /\ log[1].kind = "ETUDIANT" /\ log[1].idx = 1

\* C29: while the student loop runs at most one student row is uncommitted,
\* and a step that rejects a student row leaves the committed rows as they
\* were and the transaction equal to them.
C29_RowLevelTransactions ==
    /\ [](pc = "etudiants" =>
             Cardinality(tx["etudiants"] \ db["etudiants"]) + Len(pending) <= 1)
    /\ [][(pc = "etudiants" /\ etudiant_errors' = etudiant_errors + 1)
             => (db' = db /\ tx' = db /\ pending' = <<>>)]_vars

C29_Witness ==
    /\ pc = "etudiants"
    /\ i = 3
    /\ etudiant_errors = 1
    /\ Cardinality(db["etudiants"]) = 1
    /\ log # <<>> /\ log[Len(log)].kind = "ETUDIANT" /\ log[Len(log)].idx = 1

\* C27: an enrollment file that can be read is loaded whichever optional
\* column it lacks: the stage is not cancelled and no student row is
\* rejected for a missing column.
C27_OptionalColumnsDegrade ==
    input.insc.ok =>
        /\ ~Printed("insc_cancelled")
        /\ \A j \in 1..Len(log) : log[j].cause # "key"

\* the rows of a frame that are upserted under the key v
C26_Upserted(frame, col, v) == {k \in 1..Len(frame) : safe_string(frame[k][col]) = v}

\* the file position of the first row of d that has the key v
C26_First(d, col, v) ==
    CHOOSE p \in {d[k].idx : k \in 1..Len(d)} :
        /\ \E k \in 1..Len(d) : d[k].idx = p /\ safe_string(d[k][col]) = v
        /\ \A k \in 1..Len(d) : safe_string(d[k][col]) = v => p <= d[k].idx

\* every key whose first row in the file has all the required cells is
\* upserted from exactly one row of the frame, that first row
C26_FirstSeen(src, d, frame, col, required) ==
    \A k \in 1..Len(d) :
        LET v == safe_string(d[k][col])
        IN  (/\ IsStr(src[d[k].idx + 1][col])
             /\ d[k].idx = C26_First(d, col, v)
             /\ \A c \in required : ~IsNull(d[k][c])) =>
                LET u == C26_Upserted(frame, col, v)
                IN  /\ Cardinality(u) = 1
                    /\ \A j \in u : frame[j].idx = d[k].idx

\* C26: deduplication on the natural key is first-seen wins: for
\* institutions, components, domains, programs, tracks and students, a key
\* that several complete source rows share is upserted from exactly one
\* row, the first of them in source order.
C26_FirstSeenWins ==
    /\ (pc = "meta_start" /\ input.inst.ok) =>
           C26_FirstSeen(input.inst.rows, WithIndex(input.inst.rows),
                         InstitutionFrame(input.inst.rows), "institution_id",
                         {"institution_id"})
    /\ pc = "composantes" =>
           C26_FirstSeen(input.meta.rows, df, ComposanteFrame(df), "composante",
                         {"composante", "institution_id"})
    /\ pc = "domaines" =>
           C26_FirstSeen(input.meta.rows, df, DomaineFrame(df), "domaine", {"domaine"})
    /\ pc = "mentions" =>
           C26_FirstSeen(input.meta.rows, df, MentionFrame(df), "id_mention",
                         {"id_mention", "composante", "domaine", "mention"})
    /\ pc = "parcours" =>
           C26_FirstSeen(input.meta.rows, df, ParcoursFrame(df), "id_parcours",
                         {"id_parcours", "id_mention", "parcours"})
    /\ pc = "etudiants" =>
           C26_FirstSeen(input.insc.rows, df, EtudiantFrame(df), "code_etudiant",
                         {"code_etudiant", "nom"})

\* C28: every academic year found in the enrollment source is committed,
\* with a non-null ordre_annee that no other year carries, before the
\* students and enrollments of the file are attempted.
C28_YearsCommittedFirst ==
    (Happened("insc_start") /\ ~LoadRaises(input.insc) /\ pc # "annees") =>
        /\ \A k \in 1..Len(AnneeFrame(df)) :
               \E r \in db["annees_universitaires"] :
                   /\ r.annee = safe_string(AnneeFrame(df)[k].annee_universitaire)
                   /\ IsStr(r.ordre_annee)
        /\ \A r1, r2 \in db["annees_universitaires"] :
               r1.ordre_annee = r2.ordre_annee => r1 = r2

\* the store holds the enrollment of this row
C31_Committed(row) ==
    \E r \in db["inscriptions"] : r.code_inscription = safe_string(row.code_inscription)

C32_TypeCodes == {<<"C", "L", "A", "S">>, <<"H", "Y", "B">>}

\* the keys of an enrollment other than its type
C32_OtherKeys == {"code_etudiant", "annee_universitaire", "id_parcours", "code_semestre"}

\* every other foreign key of the enrollment of this row resolves in the store
C32_OtherKeysResolve(row) ==
    LET o == InscriptionObject(row).row
    IN  \A k \in ForeignKeys["inscriptions"] :
            k.f \in C32_OtherKeys => \E r \in db[k.rt] : r[k.rf] = o[k.f]

\* C32: once the reference stage has committed, the field of Inscription
\* that the loader writes the enrollment type into carries a foreign key
\* whose table holds CLAS and HYB; and when the enrollment loader returns,
\* every attempted row whose other keys resolve is committed.
C32_EnrollmentTypeResolves ==
    /\ Happened("refs_commit") =>
           \E k \in ForeignKeys["inscriptions"] :
               /\ k.f \in InscriptionKwargs \ C32_OtherKeys
               /\ \A c \in C32_TypeCodes : \E r \in db[k.rt] : r[k.rf] = c
    /\ (Happened("insc_return") /\ Printed("insc_done")) =>
           \A k \in 1..Len(InscriptionDataFrame(df)) :
               C32_OtherKeysResolve(InscriptionDataFrame(df)[k]) =>
                   C31_Committed(InscriptionDataFrame(df)[k])

\* every key that some row of the file carries with all the required cells
\* is upserted from a row of the frame
C33_Loaded(src, d, frame, col, required) ==
    \A k \in 1..Len(d) :
        (\A c \in required \cup {col} : ~IsNull(src[d[k].idx + 1][c])) =>
            C26_Upserted(frame, col, safe_string(d[k][col])) # {}

\* C33: in every hierarchy loader and in the student loader, a key for which
\* the source holds at least one complete row is upserted, even when the
\* first row of that key lacks a required cell.
C33_CompleteRowLoadsKey ==
    /\ (pc = "meta_start" /\ input.inst.ok) =>
           C33_Loaded(input.inst.rows, WithIndex(input.inst.rows),
                      InstitutionFrame(input.inst.rows), "institution_id",
                      {"institution_id"})
    /\ pc = "composantes" =>
           C33_Loaded(input.meta.rows, df, ComposanteFrame(df), "composante",
                      {"composante", "institution_id"})
    /\ pc = "domaines" =>
           C33_Loaded(input.meta.rows, df, DomaineFrame(df), "domaine", {"domaine"})
    /\ pc = "mentions" =>
           C33_Loaded(input.meta.rows, df, MentionFrame(df), "id_mention",
                      {"id_mention", "composante", "domaine", "mention"})
    /\ pc = "parcours" =>
           C33_Loaded(input.meta.rows, df, ParcoursFrame(df), "id_parcours",
                      {"id_parcours", "id_mention", "parcours"})
    /\ pc = "etudiants" =>
           C33_Loaded(input.insc.rows, df, EtudiantFrame(df), "code_etudiant",
                      {"code_etudiant", "nom"})

\* the canonical column names of the three aliased fields
C34_Canonical == {"code_semestre", "id_parcours", "code_type_inscription"}

\* C34: for every combination of alias columns in the source, the loader
\* returns a cleaned table in which each canonical column name occurs at
\* most once.
C34_OneCanonicalColumn ==
    fn.applied =>
        /\ ~fn.raised
        /\ \A c \in C34_Canonical : CountColumns(fn.columns, c) <= 1

====
